---- MODULE Spec2Model ----
(***************************************************************************)
(* Transcript acquisition and caching pipeline of fall-river-mirror.       *)
(*                                                                         *)
(* Spec: the pipeline as deployed by app/main.py.  One TranscriptManager   *)
(* and one Database are shared by                                          *)
(*   - the threadpool workers serving GET /transcript/fetch/{youtube_id}   *)
(*     (a sync endpoint, so calls run concurrently), and                   *)
(*   - the event loop, which runs the async handlers build_video_queue     *)
(*     and bulk_fetch_transcripts one at a time.                           *)
(* External services (captions API, Whisper download/transcription,        *)
(* YouTube Data API, sqlite faults) are inputs chosen with \E.             *)
(* Every sqlite statement pair execute/fetch is one atomic step here.      *)
(*                                                                         *)
(* QueueSpec: the same handlers with the event loop's discovery and batch  *)
(* runs next to one threadpool worker, statements atomic as in Spec.       *)
(*                                                                         *)
(* WhisperSpec: one worker whose Whisper fallback runs                     *)
(* WhisperProcessor.transcribe_youtube_video step by step (download,       *)
(* probe, split, per-chunk transcription, finally clause).                 *)
(*                                                                         *)
(* CursorSpec: two workers with execute and fetchone on the Database's one *)
(* shared cursor as separate steps.                                        *)
(*                                                                         *)
(* DiscoverySpec: build_video_queue's discovery next to one worker, both   *)
(* on the shared cursor, with _add_to_queue's INSERT and its read of       *)
(* cursor.rowcount as separate steps.                                      *)
(*                                                                         *)
(* RepeatSpec: bulk_fetch_transcripts invoked again and again, under weak  *)
(* fairness, on a queue left by discovery, with an environment that never  *)
(* faults (captions exist for v1 only, the database always works).         *)
(*                                                                         *)
(* RequeueSpec: QueueSpec's steps from a queue that already holds one      *)
(* entry.                                                                  *)
(*                                                                         *)
(* BatchSpec: batch runs next to one worker from a one-entry queue, every  *)
(* call recording the faults it met.                                       *)
(*                                                                         *)
(* ScrapeSpec: scrape_youtube_ids request by request over the pages the    *)
(* playlistItems API answers with.                                         *)
(***************************************************************************)
EXTENDS Integers, Sequences, FiniteSets, TLC

\* ---------------------------------------------------------------- bounds
MaxCalls == 2       \* Spec: endpoint get_transcript calls in one behaviour
MaxWorkerCalls == 1 \* QueueSpec: endpoint get_transcript calls
MaxRuns == 1        \* QueueSpec: async handler invocations (discovery / batch)
MaxAmount == 2      \* largest amount / limit parameter of a handler
MaxPages == 3       \* ScrapeSpec: pages the playlist API answers with
MaxPageLen == 2     \* ScrapeSpec: items on one page
MaxLimit == 3       \* ScrapeSpec: largest max_limit

\* ------------------------------------------------------------ value sets
Ids == {"v1", "v2"}                \* video ids
Texts == {"T1", "T2"}              \* texts an external service may produce
Threads == {"w1", "w2"}            \* threadpool workers
Loop == "loop"                     \* the asyncio event loop
Callers == Threads \cup {Loop}
\* values of the path parameter of POST /transcript/fetch/{amount}: any int
Amounts == -1..MaxAmount
\* uploads listings the channel API may return, newest first
Listings == {<<"v1">>, <<"v2", "v1">>, <<"v1", "v2", "v1">>}

\* youtube_transcript_api._errors caught by _fetch_from_youtube
CaptionsUnavailable ==
    {"TranscriptsDisabled", "NoTranscriptFound", "VideoUnavailable",
     "CouldNotRetrieveTranscript"}
CaptionOutcomes == {"ok", "OtherError"} \cup CaptionsUnavailable
MetaOutcomes == {"ok", "no_api_key", "error"}
WhisperOutcomes == {"ok", "no_api_key", "error"}
\* what _can_cache finds: database usable, or not connected / not writable
DbStates == {"ok", "not_writable"}

GROK == "Grok"
WHISPER == "Whisper"

NoContent == [fmt |-> "none", body |-> "none"]
NoMeta == "None"
SomeMeta == "metadata"

\* json.dumps(transcript_dict): the captions path stores a JSON document
JsonDumps(text) == [fmt |-> "json", body |-> text]
\* Whisper returns plain text (response_format="text")
PlainText(text) == [fmt |-> "text", body |-> text]

\* ----------------------------------------------------- results of a call
NoResult == [kind |-> "none", source |-> "none", content |-> NoContent,
             model |-> "none"]
\* JSONResponse(status_code=500, ...)
ErrorResponse == [kind |-> "error", source |-> "none", content |-> NoContent,
                  model |-> "none"]
\* dict built by _get_cached_transcript
CachedResponse(row) ==
    [kind |-> "ok", source |-> "database_cache", content |-> row.content,
     model |-> "none"]
\* dict built by _formatted_youtube_response
FormattedYoutubeResponse(transcript, cat) ==
    [kind |-> "ok", source |-> "YouTube Data API", content |-> transcript,
     model |-> cat]

\* --------------------------------------------------- return of the fetch
NoRich == [kind |-> "none", transcript |-> NoContent, video_metadata |-> NoMeta]
\* the dict returned by the captions branch of _fetch_from_youtube
RichDict(transcript, meta) ==
    [kind |-> "dict", transcript |-> transcript, video_metadata |-> meta]
\* _fetch_via_whisper returns transcribe_youtube_video's str unchanged
RichStr(text) ==
    [kind |-> "str", transcript |-> PlainText(text), video_metadata |-> NoMeta]
\* rich_data["transcript"]: a str subscripted by a str raises TypeError
SubscriptRaises(rich) == rich.kind # "dict"

\* -------------------------------------------------------- the database
\* a row of the transcripts table (create_database.py: youtube_id TEXT,
\* no UNIQUE constraint); the table is the sequence of its rows by rowid
Row(id, content, cat, fetch_date) ==
    [youtube_id |-> id, content |-> content, model |-> cat,
     fetch_date |-> fetch_date]
NoRow == [youtube_id |-> "none", content |-> NoContent, model |-> "none",
          fetch_date |-> 0]

RowsOf(rows, id) == {i \in 1..Len(rows) : rows[i].youtube_id = id}
\* SELECT COUNT(*) FROM transcripts WHERE youtube_id = ?
CountRows(rows, id) == Cardinality(RowsOf(rows, id))
FirstRow(rows, id) ==
    rows[CHOOSE i \in RowsOf(rows, id) : \A j \in RowsOf(rows, id) : i <= j]

\* _can_cache: database present, connected and test_write_permissions()
CanCache(db) == db = "ok"

\* Database.transcript_exists_by_youtube_id: count > 0, False on any error
TranscriptExists(rows, id, err) ==
    IF err THEN FALSE ELSE CountRows(rows, id) > 0

\* TranscriptManager._is_transcript_cached
IsTranscriptCached(db, rows, id, err) ==
    IF ~CanCache(db) THEN FALSE ELSE TranscriptExists(rows, id, err)

\* Database.get_transcript_by_youtube_id: fetchone() of SELECT *, None when
\* nothing is found or on any error
GetTranscriptByYoutubeId(rows, id, err) ==
    IF err \/ RowsOf(rows, id) = {} THEN NoRow ELSE FirstRow(rows, id)

\* a read that answers with whatever the lookup gave, None included
GetCachedTranscriptNoRaise(rows, id, err) ==
    CachedResponse(GetTranscriptByYoutubeId(rows, id, err))
\* TranscriptManager._get_cached_transcript: raises when the row is None
GetCachedTranscript(rows, id, err) ==
    LET transcript_data == GetTranscriptByYoutubeId(rows, id, err)
    IN  IF transcript_data = NoRow THEN ErrorResponse
        ELSE CachedResponse(transcript_data)

CacheTranscriptRaising(rows, id, content, video_metadata, cat, insert_ok, fetch_date) ==
    IF video_metadata # NoMeta /\ insert_ok
    THEN [rows |-> Append(rows, Row(id, content, cat, fetch_date)),
          raised |-> FALSE]
    ELSE [rows |-> rows, raised |-> TRUE]
\* INSERT OR REPLACE keyed on youtube_id, which the code does not use
CacheTranscriptReplacing(rows, id, content, video_metadata, cat, insert_ok, fetch_date) ==
    IF video_metadata # NoMeta /\ insert_ok
    THEN [rows |-> IF RowsOf(rows, id) = {}
                   THEN Append(rows, Row(id, content, cat, fetch_date))
                   ELSE [i \in 1..Len(rows) |->
                           IF rows[i].youtube_id = id
                           THEN Row(id, content, cat, fetch_date)
                           ELSE rows[i]],
          raised |-> FALSE]
    ELSE [rows |-> rows, raised |-> FALSE]
\* TranscriptManager._cache_transcript: video_metadata.get(...) raises on
\* None, INSERT/commit may raise; both handlers log and return -1
\* (fetch_date: datetime.now() read at line 172)
CacheTranscript(rows, id, content, video_metadata, cat, insert_ok, fetch_date) ==
    IF video_metadata # NoMeta /\ insert_ok
    THEN [rows |-> Append(rows, Row(id, content, cat, fetch_date)),
          raised |-> FALSE]
    ELSE [rows |-> rows, raised |-> FALSE]

\* ---------------------------------------------------- _fetch_from_youtube
IsFallbackErrorAny(e) == e # "ok"
\* the except clause of _fetch_from_youtube (four captions errors)
IsFallbackError(e) == e \in CaptionsUnavailable

\* video_metadata as left by the inner try: None without key or on error
VideoMetadata(m) == IF m = "ok" THEN SomeMeta ELSE NoMeta

CaptionsBranchSwallowing(out, text, m) ==
    IF out = "ok" THEN RichDict(JsonDumps(text), VideoMetadata(m))
    ELSE IF out \in CaptionsUnavailable THEN NoRich
    ELSE RichDict(JsonDumps(text), VideoMetadata(m))
\* value returned by the try block of _fetch_from_youtube; NoRich when
\* ytt_api.fetch raised
CaptionsBranch(out, text, m) ==
    IF out = "ok" THEN RichDict(JsonDumps(text), VideoMetadata(m)) ELSE NoRich

\* get_transcript after the fetch returned (lines 84-85): where it goes next
AfterFetchPc(rich) == IF SubscriptRaises(rich) THEN "done" ELSE "cache"

\* get_transcript lines 74-75: a hit returns the cached record at once
NextAfterCheck(cached) == IF cached THEN "done" ELSE "fetch"

\* ------------------------------------------------------ WhisperProcessor
\* self.chunk_duration, seconds
chunk_duration == 1200

\* a probed duration: secs + tenths/10 seconds, as float(result.stdout)
Duration(secs, tenths) == [secs |-> secs, tenths |-> tenths]
NoDuration == Duration(0, 0)
\* durations ffprobe may report for a file over the size ceiling
Durations ==
    {Duration(0, 0), Duration(0, 5), Duration(600, 0), Duration(1200, 0),
     Duration(1200, 5), Duration(2400, 5), Duration(2500, 0)}
\* ffprobe exits non-zero, prints something float() rejects, or a duration
ProbeOutcomes == {"fail", "unparsable", "ok"}

\* int(total_duration): truncation toward zero
IntOf(d) == d.secs

\* list(range(0, stop, step)) for stop >= 0, step > 0
Range(stop, step) ==
    [k \in 1..((stop + step - 1) \div step) |-> (k - 1) * step]

\* the start offsets _split_audio_file iterates over
SplitOffsets(d) == Range(IntOf(d), chunk_duration)

\* " ".join(all_transcripts)
RECURSIVE JoinNoSeparator(_)
JoinNoSeparator(seq) ==
    IF seq = <<>> THEN ""
    ELSE Head(seq) \o JoinNoSeparator(Tail(seq))
RECURSIVE Join(_)
Join(seq) ==
    IF seq = <<>> THEN ""
    ELSE IF Len(seq) = 1 THEN seq[1]
    ELSE seq[1] \o " " \o Join(Tail(seq))

\* ------------------------------------------------------------------ state
VARIABLES
    transcripts,    \* rows of the transcripts table, in rowid order
    video_queue,    \* rows of the video_queue table, in rowid order
    category,       \* TranscriptManager.category of the shared instance
    call,           \* per caller: the get_transcript invocation in progress
    ncalls,         \* endpoint calls started so far
    firstReturned,  \* history: per id, content of the first successful return
    lp,             \* the event loop's handler in progress
    nruns,          \* async handler invocations so far
    recording,      \* whether the per-call history fields are kept
    wp,             \* the transcribe_youtube_video run in progress
    cur             \* database.cursor, the one cursor every caller shares

vars == <<transcripts, video_queue, category, call, ncalls, firstReturned,
          lp, nruns, recording, wp, cur>>

\* locals of transcribe_youtube_video and the temporary directory of the run
\* (files: 0 is the downloaded audio, k > 0 the k-th chunk file; opened:
\* the start offsets of the chunks handed to the transcription API so far)
IdleWhisper ==
    [pc |-> "idle", temp_dir |-> FALSE, files |-> {}, large |-> FALSE,
     duration |-> NoDuration, offsets |-> <<>>, chunks |-> <<>>,
     opened |-> <<>>, all_transcripts |-> <<>>,
     ret |-> "none", text |-> "", failed_at |-> "none",
     probed |-> FALSE, cleanup |-> "none"]

\* database.cursor before any statement: no pending result set
IdleCursor ==
    [stmt |-> "none", by |-> "none", id |-> "none", rows |-> <<>>,
     rowcount |-> -1]

\* locals of one get_transcript invocation; the fields from capOut on record
\* the inputs it met and the external calls it made (canCache: what
\* _can_cache answered to the cache check)
IdleCall ==
    [pc |-> "idle", id |-> "none", rich |-> NoRich, result |-> NoResult,
     cached |-> FALSE, capOut |-> "none", whOut |-> "none",
     nCaption |-> 0, nFallback |-> 0, nMeta |-> 0,
     lookupOk |-> FALSE, readErr |-> FALSE, writeOut |-> "none",
     prior |-> NoContent, stored0 |-> NoContent, canCache |-> "none"]

\* a call record with its history fields kept or blanked
Recorded(c) ==
    IF recording THEN c
    ELSE [pc |-> c.pc, id |-> c.id, rich |-> c.rich, result |-> c.result,
          cached |-> FALSE, capOut |-> "none", whOut |-> "none",
          nCaption |-> 0, nFallback |-> 0, nMeta |-> 0,
          lookupOk |-> FALSE, readErr |-> FALSE, writeOut |-> "none",
          prior |-> NoContent, stored0 |-> NoContent, canCache |-> "none"]

\* datetime.now(): a clock reading that never decreases, here the number of
\* requests the application has accepted so far
Now == ncalls + nruns

StoredContent(rows, id) ==
    IF RowsOf(rows, id) = {} THEN NoContent ELSE FirstRow(rows, id).content

\* get_transcript lines 72-75: cache check and, on a hit, the cached read,
\* for a given state of the database and given faults of the two statements
GetTranscriptBeginWith(p, id, db, lookup_err, read_err) ==
        LET cached == IsTranscriptCached(db, transcripts, id, lookup_err)
            next == NextAfterCheck(cached)
        IN  /\ CanCache(db) \/ ~lookup_err
            /\ cached \/ ~read_err
            /\ call' = [call EXCEPT ![p] = Recorded(
                 [IdleCall EXCEPT
                    !.pc = next, !.id = id, !.cached = cached,
                    !.lookupOk = CanCache(db) /\ ~lookup_err,
                    !.readErr = read_err,
                    !.result = IF next = "done"
                               THEN GetCachedTranscript(transcripts, id, read_err)
                               ELSE NoResult,
                    !.prior = firstReturned[id],
                    !.stored0 = StoredContent(transcripts, id),
                    !.canCache = IF CanCache(db) THEN "yes" ELSE "no"])]

GetTranscriptBegin(p, id) ==
    \E db \in DbStates, lookup_err \in BOOLEAN, read_err \in BOOLEAN :
        GetTranscriptBeginWith(p, id, db, lookup_err, read_err)

\* a start that waits while another call for the same id is in flight
StartSerialised(p, id, max_calls) ==
    /\ \A q \in Callers \ {p} : call[q].id # id
    /\ call[p].pc = "idle"
    /\ ncalls < max_calls
    /\ ncalls' = ncalls + 1
    /\ GetTranscriptBegin(p, id)
    /\ UNCHANGED <<transcripts, video_queue, category, firstReturned, lp, nruns, recording, wp, cur>>

\* GET /transcript/fetch/{youtube_id} picked up by a threadpool worker
Start(p, id, max_calls) ==
    /\ call[p].pc = "idle"
    /\ ncalls < max_calls
    /\ ncalls' = ncalls + 1
    /\ GetTranscriptBegin(p, id)
    /\ UNCHANGED <<transcripts, video_queue, category, firstReturned, lp, nruns, recording, wp, cur>>

\* _fetch_from_youtube: captions fetch, metadata fetch, choice of fallback,
\* for a given outcome of the captions API and of the metadata API
FetchFromYoutubeWith(p, out, text, m) ==
        LET rich == CaptionsBranch(out, text, m)
            c == [call[p] EXCEPT !.capOut = out,
                                 !.nCaption = call[p].nCaption + 1]
        IN  IF rich # NoRich
            THEN call' = [call EXCEPT ![p] = Recorded(
                    [c EXCEPT !.rich = rich, !.pc = AfterFetchPc(rich),
                              !.nMeta = IF m = "no_api_key" THEN 0 ELSE 1])]
            ELSE IF IsFallbackError(out)
            THEN call' = [call EXCEPT ![p] = Recorded(
                    [c EXCEPT !.pc = "whisper",
                              !.nFallback = call[p].nFallback + 1])]
            ELSE call' = [call EXCEPT ![p] = Recorded(
                    [c EXCEPT !.pc = "done", !.result = ErrorResponse])]

FetchFromYoutube(p) ==
    /\ call[p].pc = "fetch"
    /\ \E out \in CaptionOutcomes, text \in Texts, m \in MetaOutcomes :
          FetchFromYoutubeWith(p, out, text, m)
    /\ UNCHANGED <<transcripts, video_queue, category, ncalls, firstReturned,
                   lp, nruns, recording, wp, cur>>

\* _fetch_via_whisper with outcome w of the Whisper run, then get_transcript
\* lines 84-85 on what it returned
FetchViaWhisperWith(p, w, text) ==
        LET c == [call[p] EXCEPT !.whOut = w]
            rich == RichStr(text)
        IN  \/ /\ w = "no_api_key"       \* WhisperProcessor() raises ValueError
               /\ call' = [call EXCEPT ![p] = Recorded(
                     [c EXCEPT !.pc = "done", !.result = ErrorResponse])]
               /\ UNCHANGED category
            \/ /\ w = "error"            \* transcribe_youtube_video raises
               /\ category' = WHISPER
               /\ call' = [call EXCEPT ![p] = Recorded(
                     [c EXCEPT !.pc = "done", !.result = ErrorResponse])]
            \/ /\ w = "ok"
               /\ category' = WHISPER
               /\ call' = [call EXCEPT ![p] = Recorded(
                     [c EXCEPT !.rich = rich, !.pc = AfterFetchPc(rich),
                               !.result = IF AfterFetchPc(rich) = "done"
                                          THEN ErrorResponse ELSE NoResult])]

\* the Whisper run as one step, its outcome an input
FetchViaWhisper(p) ==
    /\ call[p].pc = "whisper"
    /\ \E w \in WhisperOutcomes, text \in Texts : FetchViaWhisperWith(p, w, text)
    /\ UNCHANGED <<transcripts, video_queue, ncalls, firstReturned, lp, nruns,
                   recording, wp, cur>>

\* get_transcript lines 87-96: cache write when possible, then the response,
\* for a given state of the database and outcome of the INSERT
CacheAndRespondWith(p, db, insert_ok) ==
        LET c == call[p]
            w == IF CanCache(db)
                 THEN CacheTranscript(transcripts, c.id, c.rich.transcript,
                                      c.rich.video_metadata, category, insert_ok,
                                      Now)
                 ELSE [rows |-> transcripts, raised |-> FALSE]
        IN  /\ CanCache(db) \/ insert_ok
            /\ transcripts' = w.rows
            /\ call' = [call EXCEPT ![p] = Recorded(
                 [c EXCEPT
                    !.pc = "done",
                    !.writeOut = IF ~CanCache(db) THEN "skipped"
                                 ELSE IF ~insert_ok THEN "insert_failed"
                                 ELSE IF w.rows # transcripts THEN "ok"
                                 ELSE "not_written",
                    !.result = IF w.raised THEN ErrorResponse
                               ELSE FormattedYoutubeResponse(c.rich.transcript,
                                                             category)])]

CacheAndRespondCore(p) ==
    /\ call[p].pc = "cache"
    /\ \E db \in DbStates, insert_ok \in BOOLEAN :
          CacheAndRespondWith(p, db, insert_ok)

CacheAndRespond(p) ==
    /\ CacheAndRespondCore(p)
    /\ UNCHANGED <<video_queue, category, ncalls, firstReturned, lp, nruns,
                   recording, wp, cur>>

NoteReturn(c) ==
    IF recording /\ c.result.kind = "ok" /\ firstReturned[c.id] = NoContent
    THEN [firstReturned EXCEPT ![c.id] = c.result.content]
    ELSE firstReturned

\* get_transcript_endpoint hands the result to the client
Return(p) ==
    /\ call[p].pc = "done"
    /\ firstReturned' = NoteReturn(call[p])
    /\ call' = [call EXCEPT ![p] = IdleCall]
    /\ UNCHANGED <<transcripts, video_queue, category, ncalls, lp, nruns, recording, wp, cur>>

\* ------------------------------------------------ the shared cursor
\* rows a statement leaves pending on the cursor
CountRow(n) == [kind |-> "count", n |-> n, row |-> NoRow]
DataRow(r) == [kind |-> "row", n |-> 0, row |-> r]
NoneFetched == [kind |-> "none", n |-> 0, row |-> NoRow]

\* cursor.execute("SELECT COUNT(*) FROM transcripts WHERE youtube_id = ?")
ExecuteCount(rows, p, id) ==
    [stmt |-> "count", by |-> p, id |-> id,
     rows |-> <<CountRow(CountRows(rows, id))>>, rowcount |-> -1]
\* cursor.execute("SELECT * FROM transcripts WHERE youtube_id = ?")
ExecuteSelect(rows, p, id) ==
    [stmt |-> "select", by |-> p, id |-> id,
     rows |-> [k \in 1..Len(SelectSeq(rows, LAMBDA r : r.youtube_id = id)) |->
                 DataRow(SelectSeq(rows, LAMBDA r : r.youtube_id = id)[k])],
     rowcount |-> -1]
\* a statement that leaves no pending row (CREATE, DROP, INSERT, a failed
\* execute, or a SELECT whose rows were all fetched)
ExecuteOther(p, id) ==
    [stmt |-> "other", by |-> p, id |-> id, rows |-> <<>>, rowcount |-> -1]

\* cursor.fetchone(): the next pending row of whatever statement ran last
FetchOne(c) == IF c.rows = <<>> THEN NoneFetched ELSE Head(c.rows)
AfterFetchOne(c) == IF c.rows = <<>> THEN c ELSE [c EXCEPT !.rows = Tail(c.rows)]

\* transcript_exists_by_youtube_id on what fetchone() returned: None[0]
\* raises (False); otherwise column 0 of the row, a count or a row's id
ExistsFromFetched(f) ==
    IF f.kind = "none" THEN FALSE
    ELSE IF f.kind = "count" THEN f.n > 0
    ELSE TRUE

\* _get_cached_transcript on what fetchone() returned: None and a one-column
\* row raise, a transcripts row is answered with its content
CachedFromFetched(f) ==
    IF f.kind = "row" THEN CachedResponse(f.row) ELSE ErrorResponse

CursorUnchanged ==
    UNCHANGED <<video_queue, category, firstReturned, lp, nruns, recording, wp>>

\* get_transcript up to the execute of transcript_exists_by_youtube_id
\* (_can_cache and its test statements included)
CursorStart(p, id) ==
    /\ call[p].pc = "idle"
    /\ ncalls < MaxCalls
    /\ ncalls' = ncalls + 1
    /\ \E db \in DbStates :
        /\ cur' = IF CanCache(db) THEN ExecuteCount(transcripts, p, id)
                  ELSE ExecuteOther(p, id)
        /\ call' = [call EXCEPT ![p] = Recorded(
              [IdleCall EXCEPT
                 !.pc = IF CanCache(db) THEN "lookup_fetch"
                        ELSE NextAfterCheck(FALSE),
                 !.id = id,
                 !.prior = firstReturned[id],
                 !.stored0 = StoredContent(transcripts, id)])]
    /\ UNCHANGED transcripts
    /\ CursorUnchanged

\* transcript_exists_by_youtube_id: fetchone() and the decision of
\* get_transcript lines 74-75
CursorLookupFetch(p) ==
    /\ call[p].pc = "lookup_fetch"
    /\ LET f == FetchOne(cur)
           cached == ExistsFromFetched(f)
       IN  /\ cur' = AfterFetchOne(cur)
           /\ call' = [call EXCEPT ![p] = Recorded(
                 [call[p] EXCEPT
                    !.pc = IF cached THEN "read" ELSE NextAfterCheck(cached),
                    !.cached = cached,
                    !.lookupOk = f.kind # "none"])]
    /\ UNCHANGED <<transcripts, ncalls>>
    /\ CursorUnchanged

\* get_transcript_by_youtube_id: the execute
CursorReadExecute(p) ==
    /\ call[p].pc = "read"
    /\ cur' = ExecuteSelect(transcripts, p, call[p].id)
    /\ call' = [call EXCEPT ![p].pc = "read_fetch"]
    /\ UNCHANGED <<transcripts, ncalls>>
    /\ CursorUnchanged

\* get_transcript_by_youtube_id: fetchone(), then _get_cached_transcript
CursorReadFetch(p) ==
    /\ call[p].pc = "read_fetch"
    /\ LET f == FetchOne(cur)
       IN  /\ cur' = AfterFetchOne(cur)
           /\ call' = [call EXCEPT ![p] = Recorded(
                 [call[p] EXCEPT !.pc = NextAfterCheck(TRUE),
                                 !.readErr = f.kind # "row",
                                 !.result = CachedFromFetched(f)])]
    /\ UNCHANGED <<transcripts, ncalls>>
    /\ CursorUnchanged

\* the cache write and the response: its statements run on the same cursor
CursorCacheAndRespond(p) ==
    /\ CacheAndRespondCore(p)
    /\ cur' = ExecuteOther(p, call[p].id)
    /\ UNCHANGED ncalls
    /\ CursorUnchanged

\* ------------------------------------------- transcribe_youtube_video
\* an exception leaving the try block at the given stage: the except clause
\* re-raises, nothing is returned
RaisedReturningPartial(w, stage) ==
    [w EXCEPT !.pc = "finally", !.ret = "returned",
              !.text = Join(w.all_transcripts), !.failed_at = stage]
Raised(w, stage) ==
    [w EXCEPT !.pc = "finally", !.ret = "raised", !.failed_at = stage]

\* the finally clause: rmtree of the temporary directory when there is one;
\* a failing rmtree is logged and swallowed
CleanupNever(w, rm_ok) == [w EXCEPT !.pc = "exit", !.cleanup = "no_dir"]
Cleanup(w, rm_ok) ==
    IF ~w.temp_dir THEN [w EXCEPT !.pc = "exit", !.cleanup = "no_dir"]
    ELSE IF rm_ok
    THEN [w EXCEPT !.pc = "exit", !.temp_dir = FALSE, !.files = {},
                   !.cleanup = "removed"]
    ELSE [w EXCEPT !.pc = "exit", !.cleanup = "rmtree_failed"]

WhisperUnchanged ==
    UNCHANGED <<transcripts, video_queue, category, call, ncalls,
                firstReturned, lp, nruns, recording, cur>>

\* _fetch_via_whisper up to tempfile.mkdtemp() in transcribe_youtube_video
WhisperBegin(p) ==
    /\ call[p].pc = "whisper"
    /\ wp.pc \in {"idle", "left"}
    /\ \E api_key \in BOOLEAN, mkdtemp_ok \in BOOLEAN :
        /\ api_key \/ mkdtemp_ok
        /\ IF ~api_key
           THEN /\ FetchViaWhisperWith(p, "no_api_key", "")
                /\ wp' = IdleWhisper
           ELSE /\ category' = WHISPER
                /\ wp' = IF mkdtemp_ok
                         THEN [IdleWhisper EXCEPT !.pc = "download",
                                                  !.temp_dir = TRUE]
                         ELSE Raised(IdleWhisper, "mkdtemp")
                /\ UNCHANGED call
    /\ UNCHANGED <<transcripts, video_queue, ncalls, firstReturned, lp, nruns,
                   recording, cur>>

\* ydl.download, os.listdir and the size test (lines 72-88)
WhisperDownload ==
    /\ wp.pc = "download"
    /\ \E out \in {"ok", "error", "no_file"}, large \in BOOLEAN :
        /\ out = "ok" \/ ~large
        /\ wp' = IF out = "ok"
                 THEN [wp EXCEPT !.pc = IF large THEN "probe" ELSE "single",
                                 !.files = {0}, !.large = large]
                 ELSE Raised(wp, out)
    /\ WhisperUnchanged

\* _transcribe_single_file
WhisperSingle ==
    /\ wp.pc = "single"
    /\ \E ok \in BOOLEAN, text \in Texts :
        wp' = IF ok
              THEN [wp EXCEPT !.pc = "finally", !.ret = "returned",
                              !.text = text, !.opened = <<0>>]
              ELSE Raised(wp, "transcribe")
    /\ WhisperUnchanged

\* _split_audio_file: ffprobe and float(result.stdout.strip())
WhisperProbe ==
    /\ wp.pc = "probe"
    /\ \E out \in ProbeOutcomes, d \in Durations :
        /\ out = "ok" \/ d = NoDuration
        /\ wp' = IF out # "ok" THEN Raised(wp, "probe")
                 ELSE [wp EXCEPT !.pc = "split", !.duration = d,
                                 !.probed = TRUE,
                                 !.offsets = SplitOffsets(d)]
    /\ WhisperUnchanged

\* _split_audio_file: one iteration of the ffmpeg loop, or its return
WhisperSplitStep ==
    /\ wp.pc = "split"
    /\ LET n == Len(wp.chunks)
       IN  IF n < Len(wp.offsets)
           THEN \E ok \in BOOLEAN :
                  wp' = IF ok
                        THEN [wp EXCEPT
                                !.chunks = Append(wp.chunks, wp.offsets[n + 1]),
                                !.files = wp.files \cup {n + 1}]
                        ELSE Raised([wp EXCEPT !.files = wp.files \cup {n + 1}],
                                    "extract")
           ELSE wp' = [wp EXCEPT !.pc = "transcribe"]
    /\ WhisperUnchanged

\* _transcribe_large_file: one iteration of the transcription loop, or the
\* join and return
WhisperTranscribeStep ==
    /\ wp.pc = "transcribe"
    /\ LET n == Len(wp.all_transcripts)
       IN  IF n < Len(wp.chunks)
           THEN \E ok \in BOOLEAN, text \in Texts :
                  LET w == [wp EXCEPT
                              !.opened = Append(wp.opened, wp.chunks[n + 1])]
                  IN  wp' = IF ok
                            THEN [w EXCEPT !.all_transcripts =
                                             Append(wp.all_transcripts, text)]
                            ELSE Raised(w, "transcribe")
           ELSE wp' = [wp EXCEPT !.pc = "finally", !.ret = "returned",
                                 !.text = Join(wp.all_transcripts)]
    /\ WhisperUnchanged

\* the finally clause of transcribe_youtube_video
WhisperFinally ==
    /\ wp.pc = "finally"
    /\ \E rm_ok \in BOOLEAN :
        /\ wp.temp_dir \/ rm_ok
        /\ wp' = Cleanup(wp, rm_ok)
    /\ WhisperUnchanged

\* transcribe_youtube_video returns or raises into _fetch_via_whisper
WhisperReturn(p) ==
    /\ call[p].pc = "whisper"
    /\ wp.pc = "exit"
    /\ FetchViaWhisperWith(p, IF wp.ret = "returned" THEN "ok" ELSE "error",
                           wp.text)
    /\ wp' = [wp EXCEPT !.pc = "left"]
    /\ UNCHANGED <<transcripts, video_queue, ncalls, firstReturned, lp, nruns,
                   recording, cur>>

\* ------------------------------------------------------- the event loop
\* locals of the async handler in progress (build_video_queue or
\* bulk_fetch_transcripts with the queue_new_videos call it may make;
\* sleeps: the rate-limit delays the batch loop has taken; pages: what the
\* playlist API answers request by request, the last page without a
\* nextPageToken; requests: the playlistItems requests made)
\* the results dict of queue_new_videos before its loop
NoResults ==
    [total_discovered |-> 0, already_exists |-> 0, already_in_queue |-> 0,
     newly_queued |-> 0, skipped |-> 0, failed |-> 0]

IdleLoop ==
    [pc |-> "idle", handler |-> "none", existing_ids |-> {}, queued_ids |-> {},
     scraped |-> <<>>, i |-> 1, results |-> NoResults, queue_len0 |-> 0,
     listing |-> <<>>, max_new |-> 0, known0 |-> {},
     amount |-> 0, items |-> <<>>, idx |-> 1,
     fetched |-> 0, failed |-> 0, nresults |-> 0, sleeps |-> 0,
     pages |-> <<>>, max_limit |-> 0, video_ids |-> <<>>, requests |-> 0]

QueueRow(id, avail) == [youtube_id |-> id, transcript_available |-> avail]
TranscriptIds(rows) == {rows[i].youtube_id : i \in 1..Len(rows)}
QueueIds(q) == {q[i].youtube_id : i \in 1..Len(q)}

\* get_existing_youtube_ids / get_queued_youtube_ids: set() on any error
GetExistingYoutubeIds(rows, err) == IF err THEN {} ELSE TranscriptIds(rows)
GetQueuedYoutubeIds(q, err) == IF err THEN {} ELSE QueueIds(q)

\* scrape_youtube_ids: the listing, cut to max_limit when max_limit > 0
ScrapeYoutubeIds(listing, max_limit) ==
    IF max_limit > 0 /\ Len(listing) >= max_limit
    THEN SubSeq(listing, 1, max_limit) ELSE listing

\* snapshot and listing taken by queue_new_videos before its loop (max_new:
\* the number of new videos the handler asked for; listing, max_new and
\* known0 record what the run was given)
QueueNewVideosBegin(handler, amount, max_limit, max_new) ==
    \E listing \in Listings, err1 \in BOOLEAN, err2 \in BOOLEAN :
        LET scraped_ids == ScrapeYoutubeIds(listing, max_limit)
        IN  lp' = [IdleLoop EXCEPT
                 !.pc = "discover", !.handler = handler, !.amount = amount,
                 !.existing_ids = GetExistingYoutubeIds(transcripts, err1),
                 !.queued_ids = GetQueuedYoutubeIds(video_queue, err2),
                 !.scraped = scraped_ids,
                 !.results.total_discovered = Len(scraped_ids),
                 !.queue_len0 = Len(video_queue),
                 !.listing = listing, !.max_new = max_new,
                 !.known0 = TranscriptIds(transcripts) \cup QueueIds(video_queue)]

\* POST /queue/build: build_video_queue up to the loop of queue_new_videos
BuildVideoQueue(limit) ==
    /\ lp.pc = "idle"
    /\ nruns < MaxRuns
    /\ nruns' = nruns + 1
    /\ \/ QueueNewVideosBegin("build", 0,
                              Len(transcripts) + Len(video_queue) + limit,
                              limit)
       \/ lp' = lp                          \* scrape_youtube_ids raised
    /\ UNCHANGED <<transcripts, video_queue, category, call, ncalls,
                   firstReturned, recording, wp, cur>>

\* _add_to_queue: INSERT OR IGNORE, True only when a row was added
AddToQueue(q, id, has_transcript, fail) ==
    IF fail \/ id \in QueueIds(q) THEN q
    ELSE Append(q, QueueRow(id, IF has_transcript THEN 1 ELSE 0))

\* queue_new_videos lines 368-378: an id of either snapshot is skipped
SkipCounted(l, youtube_id) ==
    IF youtube_id \in l.existing_ids
    THEN [l EXCEPT !.i = l.i + 1,
                   !.results.already_exists = l.results.already_exists + 1,
                   !.results.skipped = l.results.skipped + 1]
    ELSE [l EXCEPT !.i = l.i + 1,
                   !.results.already_in_queue = l.results.already_in_queue + 1,
                   !.results.skipped = l.results.skipped + 1]

\* queue_new_videos lines 381-389 on what _add_to_queue returned
AfterAdd(l, youtube_id, was_inserted) ==
    IF was_inserted
    THEN [l EXCEPT !.i = l.i + 1,
                   !.results.newly_queued = l.results.newly_queued + 1,
                   !.queued_ids = l.queued_ids \cup {youtube_id}]
    ELSE [l EXCEPT !.i = l.i + 1,
                   !.results.failed = l.results.failed + 1]

\* one iteration of the loop of queue_new_videos
DiscoverStep ==
    /\ lp.pc = "discover"
    /\ lp.i <= Len(lp.scraped)
    /\ LET youtube_id == lp.scraped[lp.i]
       IN  IF youtube_id \in lp.existing_ids \/ youtube_id \in lp.queued_ids
           THEN /\ lp' = SkipCounted(lp, youtube_id)
                /\ UNCHANGED video_queue
           ELSE \E has_transcript \in BOOLEAN, fail \in BOOLEAN :
                  LET q == AddToQueue(video_queue, youtube_id,
                                      has_transcript, fail)
                  IN  /\ video_queue' = q
                      /\ lp' = AfterAdd(lp, youtube_id, q # video_queue)
    /\ UNCHANGED <<transcripts, category, call, ncalls, firstReturned, nruns,
                   recording, wp, cur>>

\* queue_new_videos returns: build_video_queue answers, the batch goes on
DiscoverEnd ==
    /\ lp.pc = "discover"
    /\ lp.i > Len(lp.scraped)
    /\ lp' = IF lp.handler = "bulk"
             THEN [IdleLoop EXCEPT !.pc = "select", !.handler = "bulk",
                                   !.amount = lp.amount]
             ELSE IdleLoop
    /\ UNCHANGED <<transcripts, video_queue, category, call, ncalls,
                   firstReturned, nruns, recording, wp, cur>>

\* cursor.execute("INSERT OR IGNORE INTO video_queue ...") and the commit
ExecuteInsertOrIgnore(q, p, id) ==
    [stmt |-> "insert", by |-> p, id |-> id, rows |-> <<>>,
     rowcount |-> IF id \in QueueIds(q) THEN 0 ELSE 1]

\* one iteration of the loop of queue_new_videos, up to the commit of
\* _add_to_queue (line 478) when the id is in neither snapshot
CursorDiscoverInsert ==
    /\ lp.pc = "discover"
    /\ lp.i <= Len(lp.scraped)
    /\ LET youtube_id == lp.scraped[lp.i]
       IN  IF youtube_id \in lp.existing_ids \/ youtube_id \in lp.queued_ids
           THEN /\ lp' = SkipCounted(lp, youtube_id)
                /\ UNCHANGED <<video_queue, cur>>
           ELSE \E has_transcript \in BOOLEAN, fail \in BOOLEAN :
                  /\ video_queue' = AddToQueue(video_queue, youtube_id,
                                               has_transcript, fail)
                  /\ IF fail
                     THEN /\ lp' = AfterAdd(lp, youtube_id, FALSE)
                          /\ cur' = ExecuteOther(Loop, youtube_id)
                     ELSE /\ lp' = [lp EXCEPT !.pc = "rowcount"]
                          /\ cur' = ExecuteInsertOrIgnore(video_queue, Loop,
                                                          youtube_id)
    /\ UNCHANGED <<transcripts, category, call, ncalls, firstReturned, nruns,
                   recording, wp>>

\* _add_to_queue line 482: was_inserted = cursor.rowcount > 0, then the
\* counters of queue_new_videos
CursorDiscoverRowcount ==
    /\ lp.pc = "rowcount"
    /\ lp' = AfterAdd([lp EXCEPT !.pc = "discover"], lp.scraped[lp.i],
                      cur.rowcount > 0)
    /\ UNCHANGED <<transcripts, video_queue, category, call, ncalls,
                   firstReturned, nruns, recording, wp, cur>>

\* SELECT T1.youtube_id FROM video_queue T1 LEFT JOIN transcripts T2 ...
\* WHERE T1.transcript_available = 1 AND T2.youtube_id IS NULL
RECURSIVE AvailableInQueue(_, _)
AvailableInQueue(q, rows) ==
    IF q = <<>> THEN <<>>
    ELSE LET rest == AvailableInQueue(Tail(q), rows)
         IN  IF Head(q).transcript_available = 1
                /\ Head(q).youtube_id \notin TranscriptIds(rows)
             THEN <<Head(q).youtube_id>> \o rest
             ELSE rest

\* ... LIMIT ?  (sqlite: a negative LIMIT puts no bound on the rows)
Limit(seq, n) ==
    IF n < 0 THEN seq ELSE IF Len(seq) > n THEN SubSeq(seq, 1, n) ELSE seq

\* step 1 of bulk_fetch_transcripts: the queue is topped up when it holds
\* fewer than amount available entries and auto_build is set
BulkFetchBegin(amount, auto_build) ==
       LET available_count == Len(AvailableInQueue(video_queue, transcripts))
           select == [IdleLoop EXCEPT !.pc = "select", !.handler = "bulk",
                                      !.amount = amount]
       IN  IF available_count < amount /\ auto_build
           THEN \/ QueueNewVideosBegin("bulk", amount,
                                       amount - available_count,
                                       amount - available_count)
                \/ lp' = select             \* auto-build failed, logged
           ELSE lp' = select

\* POST /transcript/fetch/{amount}
BulkFetchTranscripts(amount, auto_build) ==
    /\ lp.pc = "idle"
    /\ nruns < MaxRuns
    /\ nruns' = nruns + 1
    /\ BulkFetchBegin(amount, auto_build)
    /\ UNCHANGED <<transcripts, video_queue, category, call, ncalls,
                   firstReturned, recording, wp, cur>>

\* step 2 of bulk_fetch_transcripts: the entries this run will process
BatchSelect ==
    /\ lp.pc = "select"
    /\ LET queue_items ==
             Limit(AvailableInQueue(video_queue, transcripts), lp.amount)
       IN  lp' = IF queue_items = <<>> THEN IdleLoop
                 ELSE [lp EXCEPT !.pc = "call", !.items = queue_items]
    /\ UNCHANGED <<transcripts, video_queue, category, call, ncalls,
                   firstReturned, nruns, recording, wp, cur>>

\* the batch calls transcript_manager.get_transcript for the next entry
BatchCall ==
    /\ lp.pc = "call"
    /\ call[Loop].pc = "idle"
    /\ GetTranscriptBegin(Loop, lp.items[lp.idx])
    /\ lp' = [lp EXCEPT !.pc = "wait"]
    /\ UNCHANGED <<transcripts, video_queue, category, ncalls, firstReturned,
                   nruns, recording, wp, cur>>

\* DELETE FROM video_queue WHERE youtube_id = ?
DeleteFromQueue(q, id) == SelectSeq(q, LAMBDA r : r.youtube_id # id)

\* the entry deleted whatever get_transcript answered
QueueAfterAnyResult(q, result, id, delete_ok) ==
    IF ~delete_ok THEN q ELSE DeleteFromQueue(q, id)
\* bulk_fetch_transcripts lines 510-537: a JSONResponse counts as failed,
\* anything else removes the entry from the queue unless the DELETE raises
QueueAfterResult(q, result, id, delete_ok) ==
    IF result.kind = "error" \/ ~delete_ok THEN q ELSE DeleteFromQueue(q, id)

\* the counters and the results list after one entry (lines 510-547): a
\* success is counted and recorded before the DELETE, whose exception is
\* caught by the same handler as a failed fetch
CountersAfterResult(l, result, delete_ok) ==
    IF result.kind = "error"
    THEN [l EXCEPT !.failed = l.failed + 1, !.nresults = l.nresults + 1]
    ELSE IF delete_ok
    THEN [l EXCEPT !.fetched = l.fetched + 1, !.nresults = l.nresults + 1]
    ELSE [l EXCEPT !.fetched = l.fetched + 1, !.failed = l.failed + 1,
                   !.nresults = l.nresults + 2]

\* the batch takes the result of the call, then sleeps and moves on
BatchResultWith(delete_ok) ==
        LET c == call[Loop]
            last == lp.idx = Len(lp.items)
            l == [CountersAfterResult(lp, c.result, delete_ok)
                    EXCEPT !.sleeps = lp.sleeps + 1]   \* time.sleep, line 550
        IN  /\ c.result.kind = "error" => delete_ok
            /\ video_queue' =
                  QueueAfterResult(video_queue, c.result, c.id, delete_ok)
            /\ lp' = IF last THEN [l EXCEPT !.pc = "respond"]
                     ELSE [l EXCEPT !.pc = "call", !.idx = lp.idx + 1]
            /\ firstReturned' = NoteReturn(c)

BatchResult ==
    /\ lp.pc = "wait"
    /\ call[Loop].pc = "done"
    /\ \E delete_ok \in BOOLEAN : BatchResultWith(delete_ok)
    /\ call' = [call EXCEPT ![Loop] = IdleCall]
    /\ UNCHANGED <<transcripts, category, ncalls, nruns, recording, wp, cur>>

\* bulk_fetch_transcripts returns its response (lines 553-569)
BatchRespond ==
    /\ lp.pc = "respond"
    /\ lp' = IdleLoop
    /\ UNCHANGED <<transcripts, video_queue, category, call, ncalls,
                   firstReturned, nruns, recording, wp, cur>>


Init ==
    /\ transcripts = <<>>
    /\ video_queue = <<>>
    /\ category = GROK
    /\ call = [p \in Callers |-> IdleCall]
    /\ ncalls = 0
    /\ firstReturned = [id \in Ids |-> NoContent]
    /\ lp = IdleLoop
    /\ nruns = 0
    /\ recording = TRUE
    /\ wp = IdleWhisper
    /\ cur = IdleCursor

Next ==
    \E p \in Threads :
        \/ \E id \in Ids : Start(p, id, MaxCalls)
        \/ FetchFromYoutube(p)
        \/ FetchViaWhisper(p)
        \/ CacheAndRespond(p)
        \/ Return(p)

Spec == Init /\ [][Next]_vars

\* the event loop's handlers next to one threadpool worker
QueueNext ==
    \/ \E id \in Ids : Start("w1", id, MaxWorkerCalls)
    \/ Return("w1")
    \/ \E p \in {"w1", Loop} :
          \/ FetchFromYoutube(p)
          \/ FetchViaWhisper(p)
          \/ CacheAndRespond(p)
    \/ \E limit \in 0..MaxAmount : BuildVideoQueue(limit)
    \/ DiscoverStep
    \/ DiscoverEnd
    \/ \E amount \in Amounts, auto_build \in BOOLEAN :
          BulkFetchTranscripts(amount, auto_build)
    \/ BatchSelect
    \/ BatchCall
    \/ BatchResult
    \/ BatchRespond

\* the same initial state, without the per-call history
QueueInit ==
    /\ transcripts = <<>>
    /\ video_queue = <<>>
    /\ category = GROK
    /\ call = [p \in Callers |-> IdleCall]
    /\ ncalls = 0
    /\ firstReturned = [id \in Ids |-> NoContent]
    /\ lp = IdleLoop
    /\ nruns = 0
    /\ recording = FALSE
    /\ wp = IdleWhisper
    /\ cur = IdleCursor

QueueSpec == QueueInit /\ [][QueueNext]_vars

\* one worker's get_transcript with the Whisper run in its steps
WhisperNext ==
    \/ \E id \in Ids : Start("w1", id, MaxWorkerCalls)
    \/ FetchFromYoutube("w1")
    \/ WhisperBegin("w1")
    \/ WhisperDownload
    \/ WhisperSingle
    \/ WhisperProbe
    \/ WhisperSplitStep
    \/ WhisperTranscribeStep
    \/ WhisperFinally
    \/ WhisperReturn("w1")
    \/ CacheAndRespond("w1")
    \/ Return("w1")

WhisperSpec == Init /\ [][WhisperNext]_vars

\* the threadpool workers with the cursor's execute and fetch as the
\* separate calls they are
CursorNext ==
    \E p \in Threads :
        \/ \E id \in Ids : CursorStart(p, id)
        \/ CursorLookupFetch(p)
        \/ CursorReadExecute(p)
        \/ CursorReadFetch(p)
        \/ FetchFromYoutube(p)
        \/ FetchViaWhisper(p)
        \/ CursorCacheAndRespond(p)
        \/ Return(p)

CursorSpec == Init /\ [][CursorNext]_vars

\* discovery on the event loop next to one threadpool worker, all of them
\* on the shared cursor
DiscoveryNext ==
    \/ \E id \in Ids : CursorStart("w1", id)
    \/ CursorLookupFetch("w1")
    \/ CursorReadExecute("w1")
    \/ CursorReadFetch("w1")
    \/ FetchFromYoutube("w1")
    \/ FetchViaWhisper("w1")
    \/ CursorCacheAndRespond("w1")
    \/ Return("w1")
    \/ \E limit \in 0..MaxAmount : BuildVideoQueue(limit)
    \/ CursorDiscoverInsert
    \/ CursorDiscoverRowcount
    \/ DiscoverEnd

DiscoverySpec == QueueInit /\ [][DiscoveryNext]_vars

\* ------------------------------------------------- scrape_youtube_ids
\* one page of playlistItems: up to MaxPageLen ids (the API caps a page at
\* maxResults = 50; a page may be empty)
PageSet ==
    UNION {[1..n -> Ids] : n \in 0..MaxPageLen}
\* the answers of the API to the successive requests
Paginations ==
    UNION {[1..n -> PageSet] : n \in 1..MaxPages}

\* lines 273-292 with the limit test cutting nothing
ScrapeAfterPageNoCut(l) ==
    LET k == l.requests + 1
        ids == l.video_ids \o l.pages[k]
    IN  IF l.max_limit > 0 /\ Len(ids) >= l.max_limit
        THEN [l EXCEPT !.pc = "scraped", !.requests = k, !.video_ids = ids,
                       !.scraped = ids]
        ELSE IF k = Len(l.pages)
        THEN [l EXCEPT !.pc = "scraped", !.requests = k, !.video_ids = ids,
                       !.scraped = ids]
        ELSE [l EXCEPT !.requests = k, !.video_ids = ids]
\* lines 273-292: the ids of the page just received are appended, then the
\* limit test (cut and stop), then the token test (stop or go on)
ScrapeAfterPage(l) ==
    LET k == l.requests + 1
        ids == l.video_ids \o l.pages[k]
    IN  IF l.max_limit > 0 /\ Len(ids) >= l.max_limit
        THEN [l EXCEPT !.pc = "scraped", !.requests = k,
                       !.video_ids = SubSeq(ids, 1, l.max_limit),
                       !.scraped = SubSeq(ids, 1, l.max_limit)]
        ELSE IF k = Len(l.pages)
        THEN [l EXCEPT !.pc = "scraped", !.requests = k, !.video_ids = ids,
                       !.scraped = ids]
        ELSE [l EXCEPT !.requests = k, !.video_ids = ids]

\* scrape_youtube_ids up to its loop (lines 207-252)
ScrapeBegin(max_limit) ==
    /\ lp.pc = "idle"
    /\ nruns < MaxRuns
    /\ nruns' = nruns + 1
    /\ \E pages \in Paginations, ok \in BOOLEAN :
          lp' = IF ok
                THEN [IdleLoop EXCEPT !.pc = "scrape", !.handler = "scrape",
                                      !.pages = pages, !.max_limit = max_limit]
                ELSE [IdleLoop EXCEPT !.pc = "scrape_raised",
                                      !.handler = "scrape"]
    /\ UNCHANGED <<transcripts, video_queue, category, call, ncalls,
                   firstReturned, recording, wp, cur>>

\* one iteration of the while loop: a playlistItems request and its page
ScrapePage ==
    /\ lp.pc = "scrape"
    /\ \E ok \in BOOLEAN :
          lp' = IF ok THEN ScrapeAfterPage(lp)
                ELSE [lp EXCEPT !.pc = "scrape_raised",
                                !.requests = lp.requests + 1]
    /\ UNCHANGED <<transcripts, video_queue, category, call, ncalls,
                   firstReturned, nruns, recording, wp, cur>>

\* scrape_youtube_ids returns video_ids or raises (lines 294-302)
ScrapeEnd ==
    /\ lp.pc \in {"scraped", "scrape_raised"}
    /\ lp' = IdleLoop
    /\ UNCHANGED <<transcripts, video_queue, category, call, ncalls,
                   firstReturned, nruns, recording, wp, cur>>

ScrapeNext ==
    \/ \E max_limit \in 0..MaxLimit : ScrapeBegin(max_limit)
    \/ ScrapePage
    \/ ScrapeEnd

ScrapeSpec == QueueInit /\ [][ScrapeNext]_vars

\* ---------------------------------------------------- repeated batch runs
\* what the services answer in the runs below, the same at every attempt: v1
\* has captions, v2 has none and its audio transcribes; the metadata API, the
\* OpenAI key and the database are in order
CaptionsOf(id) == IF id = "v1" THEN "ok" ELSE "TranscriptsDisabled"

\* queues a discovery run leaves behind: distinct ids, each with the flag
\* _check_captions gave it
QueueRows == {QueueRow(id, avail) : id \in Ids, avail \in {0, 1}}
QueuesLeft ==
    {<<a>> : a \in QueueRows}
      \cup {q \in {<<a, b>> : a \in QueueRows, b \in QueueRows} :
                q[1].youtube_id # q[2].youtube_id}

RepeatInit ==
    /\ transcripts = <<>>
    /\ video_queue \in QueuesLeft
    /\ category = GROK
    /\ call = [p \in Callers |-> IdleCall]
    /\ ncalls = 0
    /\ firstReturned = [id \in Ids |-> NoContent]
    /\ lp = IdleLoop
    /\ nruns = 0
    /\ recording = FALSE
    /\ wp = IdleWhisper
    /\ cur = IdleCursor

\* POST /transcript/fetch/{amount} with auto_build false, again and again
RepeatBulkFetch(amount) ==
    /\ lp.pc = "idle"
    /\ BulkFetchBegin(amount, FALSE)
    /\ UNCHANGED <<transcripts, video_queue, category, call, ncalls,
                   firstReturned, nruns, recording, wp, cur>>

RepeatCall ==
    /\ lp.pc = "call"
    /\ call[Loop].pc = "idle"
    /\ GetTranscriptBeginWith(Loop, lp.items[lp.idx], "ok", FALSE, FALSE)
    /\ lp' = [lp EXCEPT !.pc = "wait"]
    /\ UNCHANGED <<transcripts, video_queue, category, ncalls, firstReturned,
                   nruns, recording, wp, cur>>

RepeatFetch ==
    /\ call[Loop].pc = "fetch"
    /\ \E text \in Texts :
          FetchFromYoutubeWith(Loop, CaptionsOf(call[Loop].id), text, "ok")
    /\ UNCHANGED <<transcripts, video_queue, category, ncalls, firstReturned,
                   lp, nruns, recording, wp, cur>>

RepeatWhisper ==
    /\ call[Loop].pc = "whisper"
    /\ \E text \in Texts : FetchViaWhisperWith(Loop, "ok", text)
    /\ UNCHANGED <<transcripts, video_queue, ncalls, firstReturned, lp, nruns,
                   recording, wp, cur>>

RepeatCache ==
    /\ call[Loop].pc = "cache"
    /\ CacheAndRespondWith(Loop, "ok", TRUE)
    /\ UNCHANGED <<video_queue, category, ncalls, firstReturned, lp, nruns,
                   recording, wp, cur>>

RepeatResult ==
    /\ lp.pc = "wait"
    /\ call[Loop].pc = "done"
    /\ BatchResultWith(TRUE)
    /\ call' = [call EXCEPT ![Loop] = IdleCall]
    /\ UNCHANGED <<transcripts, category, ncalls, nruns, recording, wp, cur>>

RepeatNext ==
    \/ \E amount \in 1..MaxAmount : RepeatBulkFetch(amount)
    \/ BatchSelect
    \/ RepeatCall
    \/ RepeatFetch
    \/ RepeatWhisper
    \/ RepeatCache
    \/ RepeatResult
    \/ BatchRespond

\* the batch driver keeps being called and each of its steps completes
RepeatSpec == RepeatInit /\ [][RepeatNext]_vars /\ WF_vars(RepeatNext)

\* the handlers of QueueSpec started on a queue that an earlier discovery
\* run left behind
RequeueInit ==
    /\ transcripts = <<>>
    /\ video_queue \in {q \in QueuesLeft : Len(q) = 1}
    /\ category = GROK
    /\ call = [p \in Callers |-> IdleCall]
    /\ ncalls = 0
    /\ firstReturned = [id \in Ids |-> NoContent]
    /\ lp = IdleLoop
    /\ nruns = 0
    /\ recording = FALSE
    /\ wp = IdleWhisper
    /\ cur = IdleCursor

RequeueSpec == RequeueInit /\ [][QueueNext]_vars

\* batch runs over a queue an earlier discovery left behind, next to one
\* threadpool worker, with the history of every get_transcript call kept
BatchInit ==
    /\ transcripts = <<>>
    /\ video_queue \in {q \in QueuesLeft : Len(q) = 1}
    /\ category = GROK
    /\ call = [p \in Callers |-> IdleCall]
    /\ ncalls = 0
    /\ firstReturned = [id \in Ids |-> NoContent]
    /\ lp = IdleLoop
    /\ nruns = 0
    /\ recording = TRUE
    /\ wp = IdleWhisper
    /\ cur = IdleCursor

BatchNext ==
    \/ \E id \in Ids : Start("w1", id, MaxWorkerCalls)
    \/ Return("w1")
    \/ \E p \in {"w1", Loop} :
          \/ FetchFromYoutube(p)
          \/ FetchViaWhisper(p)
          \/ CacheAndRespond(p)
    \/ \E amount \in Amounts : BulkFetchTranscripts(amount, FALSE)
    \/ BatchSelect
    \/ BatchCall
    \/ BatchResult
    \/ BatchRespond

BatchSpec == BatchInit /\ [][BatchNext]_vars

\* ------------------------------------------------------------ properties
Done(p) == call[p].pc = "done"
Active(p) == call[p].pc # "idle"
NoExternalCalls(c) == c.nCaption = 0 /\ c.nFallback = 0 /\ c.nMeta = 0
WriteFailed(c) == c.writeOut \in {"insert_failed", "not_written"}

\* C1: once a get_transcript call has returned a transcript for
\* an id, every later call for that id returns the same content and makes
\* no caption, fallback or metadata call.
C1_IdempotentAfterReturn ==
    \A p \in Callers :
        (Active(p) /\ call[p].prior # NoContent) =>
            /\ NoExternalCalls(call[p])
            /\ Done(p) => /\ call[p].result.kind = "ok"
                          /\ call[p].result.content = call[p].prior

\* C2: if a record for the id exists when get_transcript is
\* called, the call returns that record's content with source
\* "database_cache" and makes no external call.
C2_RecordExistsServed ==
    \A p \in Callers :
        (Active(p) /\ call[p].stored0 # NoContent) =>
            /\ NoExternalCalls(call[p])
            /\ Done(p)
            /\ call[p].result.kind = "ok"
            /\ call[p].result.source = "database_cache"
            /\ call[p].result.content = call[p].stored0

\* C3: the transcripts table holds at most one record per video id.
C3_OneRecordPerId ==
    \A id \in Ids : CountRows(transcripts, id) <= 1

\* C4: no video id is in video_queue and in transcripts at the same time.
C4_NeverQueuedAndCached ==
    QueueIds(video_queue) \cap TranscriptIds(transcripts) = {}

\* C5: whenever an entry leaves video_queue, a transcript record for its id
\* exists.
C5_DequeuedOnlyWhenCached ==
    [][\A id \in Ids :
          (id \in QueueIds(video_queue) /\ id \notin QueueIds(video_queue')) =>
              id \in TranscriptIds(transcripts')]_vars

C7_FallbackSuccessReturned ==
    \A p \in Callers :
        (Done(p) /\ call[p].capOut \in CaptionsUnavailable
                 /\ call[p].whOut = "ok") =>
            /\ call[p].result.kind = "ok"
            /\ call[p].result.content = call[p].rich.transcript
            /\ \E i \in RowsOf(transcripts, call[p].id) :
                  /\ transcripts[i].content = call[p].rich.transcript
                  /\ transcripts[i].model = WHISPER

\* C8: captions fetched but metadata failed or unavailable: the transcript
\* is still returned and (the database being usable and the insert not
\* failing) a record is still written.
C8_MetadataNonFatal ==
    \A p \in Callers :
        (Done(p) /\ call[p].capOut = "ok"
                 /\ call[p].rich.video_metadata = NoMeta
                 /\ call[p].writeOut \notin {"skipped", "insert_failed"}) =>
            /\ call[p].result.kind = "ok"
            /\ call[p].writeOut = "ok"

\* C9: a cache write that fails after the content was obtained leaves the
\* table as it was and the call still returns that content.
C9_WriteFailureNonFatal ==
    [][\A p \in Callers :
          (call[p].pc = "cache" /\ WriteFailed(call'[p])) =>
              /\ call'[p].pc = "done"
              /\ call'[p].result.kind = "ok"
              /\ call'[p].result.content = call[p].rich.transcript
              /\ transcripts' = transcripts]_vars

C9_Witness ==
    \E p \in Callers :
        /\ Done(p) /\ call[p].writeOut = "insert_failed"
        /\ call[p].result.kind = "ok"
        /\ RowsOf(transcripts, call[p].id) = {}

C11_RediscoveryIsNoOp ==
    [][(lp.pc = "discover" /\ lp'.pc = "discover" /\ lp'.i = lp.i + 1) =>
          LET id == lp.scraped[lp.i]
          IN  /\ (id \in QueueIds(video_queue)
                    /\ id \notin TranscriptIds(transcripts)) =>
                    /\ Len(SelectSeq(video_queue',
                                     LAMBDA r : r.youtube_id = id)) = 1
                    /\ lp'.results.already_in_queue =
                          lp.results.already_in_queue + 1
                    /\ lp'.results.failed = lp.results.failed
              /\ id \in TranscriptIds(transcripts) =>
                    video_queue' = video_queue]_vars

\* ---------------------------------------------- properties of the fallback
WhisperExited == wp.pc \in {"exit", "left"}

\* ceil(D / chunk_duration) for a duration of d.secs + d.tenths/10 seconds
CeilOfDuration(d) ==
    IF d.tenths > 0 \/ d.secs % chunk_duration # 0
    THEN d.secs \div chunk_duration + 1
    ELSE d.secs \div chunk_duration

\* the texts of seq with one space between neighbours, built from the left
RECURSIVE SpaceSeparated(_)
SpaceSeparated(seq) ==
    IF seq = <<>> THEN ""
    ELSE IF Len(seq) = 1 THEN seq[1]
    ELSE SpaceSeparated(SubSeq(seq, 1, Len(seq) - 1)) \o " " \o seq[Len(seq)]

C13_ChunksCoverDuration ==
    (wp.pc = "transcribe" /\ (wp.duration.secs > 0 \/ wp.duration.tenths > 0)) =>
        /\ Len(wp.chunks) = CeilOfDuration(wp.duration)
        /\ \A k \in 1..Len(wp.chunks) : wp.chunks[k] = (k - 1) * chunk_duration
        /\ Len(wp.chunks) * chunk_duration >= wp.duration.secs
              + (IF wp.duration.tenths > 0 THEN 1 ELSE 0)

\* C14: for a file over the size ceiling a probed duration of zero, a failing
\* probe or an unparsable probe output makes the call raise; an empty
\* transcript is never returned.
C14_ZeroDurationIsFatal ==
    (WhisperExited /\ wp.large) =>
        /\ (wp.failed_at = "probe" \/ (wp.probed /\ wp.duration = Duration(0, 0)))
              => wp.ret = "raised"
        /\ wp.ret = "returned" => wp.text # ""

\* C15: for a file over the size ceiling the result is the chunk transcripts
\* in increasing start-offset order with exactly one space between
\* neighbours, every chunk transcribed exactly once, none omitted.
C15_ChunksJoinedInOrder ==
    (wp.large /\ wp.ret = "returned") =>
        /\ wp.opened = wp.chunks
        /\ \A j, k \in 1..Len(wp.opened) : j < k => wp.opened[j] < wp.opened[k]
        /\ Len(wp.all_transcripts) = Len(wp.chunks)
        /\ wp.text = SpaceSeparated(wp.all_transcripts)

C15_Witness ==
    /\ WhisperExited /\ wp.large /\ wp.ret = "returned"
    /\ wp.all_transcripts = <<"T1", "T2", "T1">>
    /\ wp.text = "T1 T2 T1"

\* C16: when the extraction or the transcription of a chunk fails, the run
\* raises and hands no text to its caller, whose get_transcript call
\* returns an error and writes nothing to the cache.
C16_PartialResultsDiscarded ==
    [][(wp.pc = "exit" /\ wp'.pc = "left" /\ wp.large
          /\ wp.failed_at \in {"extract", "transcribe"}) =>
          /\ wp.ret = "raised"
          /\ wp.text = ""
          /\ transcripts' = transcripts
          /\ \A p \in Callers :
                call[p].pc = "whisper" =>
                    /\ call'[p].pc = "done"
                    /\ call'[p].result = ErrorResponse
                    /\ call'[p].rich = NoRich]_vars

\* chunk 3 of 3 failed after two chunks had been transcribed
C16_Witness ==
    /\ wp.pc = "left" /\ wp.failed_at = "transcribe"
    /\ Len(wp.all_transcripts) = 2 /\ Len(wp.chunks) = 3
    /\ call["w1"].pc = "done" /\ call["w1"].result.kind = "error"
    /\ transcripts = <<>>

\* C17: every fetch of a call's cache operation reads the result of that
\* call's own statement: between the execute and the fetch no other call's
\* statement runs on the cursor, so a lookup for id X never observes the
\* result of a statement issued by a different call.
C17_CursorPrivateToCall ==
    [][\A p \in Callers :
          /\ (call[p].pc = "lookup_fetch" /\ call'[p].pc # "lookup_fetch") =>
                (cur.by = p /\ cur.stmt = "count" /\ cur.id = call[p].id)
          /\ (call[p].pc = "read_fetch" /\ call'[p].pc # "read_fetch") =>
                (cur.by = p /\ cur.stmt = "select" /\ cur.id = call[p].id)]_vars

\* the ids of a listing that are neither cached nor queued
UnknownIn(seq, known) == {seq[k] : k \in 1..Len(seq)} \ known

\* C18: a discovery asked for n new ids, over a listing holding at least n
\* ids that are neither cached nor queued, considers at least n such ids
\* (all of them when the listing holds fewer), even when the listing starts
\* with known ids.
C18_DiscoveryReachesUnknownIds ==
    lp.pc = "discover" =>
        LET unknown == Cardinality(UnknownIn(lp.listing, lp.known0))
            seen == Cardinality(UnknownIn(lp.scraped, lp.known0))
        IN  seen >= (IF unknown < lp.max_new THEN unknown ELSE lp.max_new)

\* C19: a batch run attempts every selected entry, records exactly one
\* result per selected entry and returns transcripts_fetched +
\* transcripts_failed equal to the number of selected entries.
C19_BatchCountsEverySelectedEntry ==
    lp.pc = "respond" =>
        /\ lp.idx = Len(lp.items)
        /\ lp.nresults = Len(lp.items)
        /\ lp.fetched + lp.failed = Len(lp.items)

\* C20: queue_new_videos processes every discovered id even when inserting
\* some id fails, and its counts partition the ids processed so far:
\* already_exists + already_in_queue + newly_queued + failed, all of
\* total_discovered at the end, with skipped = already_exists +
\* already_in_queue and newly_queued the number of rows added to video_queue.
C20_CountsPartitionDiscovered ==
    lp.pc = "discover" =>
        LET r == lp.results
        IN  /\ r.total_discovered = Len(lp.scraped)
            /\ lp.i <= Len(lp.scraped) + 1
            /\ r.already_exists + r.already_in_queue + r.newly_queued
                  + r.failed = lp.i - 1
            /\ r.skipped = r.already_exists + r.already_in_queue
            /\ r.newly_queued = Len(video_queue) - lp.queue_len0

\* ------------------------------------------- properties of the record
\* the path that produced a content: json.dumps of the captions, or the
\* plain text of the speech-to-text run
ProducedBy(content) == IF content.fmt = "json" THEN GROK ELSE WHISPER

\* C21: the model stored with a transcript and the model returned with it
\* always name the path that produced that content (captions or
\* speech-to-text), for every sequence of get_transcript calls on the one
\* TranscriptManager, a captions acquisition after an earlier fallback
\* attempt for another id included.
C21_ModelNamesProducingPath ==
    /\ \A i \in 1..Len(transcripts) :
          transcripts[i].model = ProducedBy(transcripts[i].content)
    /\ \A p \in Callers :
          (Done(p) /\ call[p].result.kind = "ok"
                   /\ call[p].result.source # "database_cache") =>
              call[p].result.model = ProducedBy(call[p].result.content)

\* C22: once a transcript record exists for a video id, no get_transcript
\* call, discovery run or batch run changes its content or its fetch date:
\* every step leaves each existing row as it was, in its place, and at most
\* appends one.
C22_RecordsOnlyInserted ==
    [][/\ Len(transcripts') \in {Len(transcripts), Len(transcripts) + 1}
       /\ SubSeq(transcripts', 1, Len(transcripts)) = transcripts
       /\ \A id \in TranscriptIds(transcripts) :
             /\ StoredContent(transcripts', id) = StoredContent(transcripts, id)
             /\ FirstRow(transcripts', id).fetch_date
                   = FirstRow(transcripts, id).fetch_date]_vars

\* a second acquisition for an id wrote while the id had a record: the
\* first record is still there with its own content
C22_Witness ==
    \E id \in Ids :
        /\ CountRows(transcripts, id) = 2
        /\ \E i, j \in RowsOf(transcripts, id) :
              /\ i < j
              /\ transcripts[i].content # transcripts[j].content
              /\ StoredContent(transcripts, id) = transcripts[i].content

\* C23: in _fetch_from_youtube, when the caption fetch raises any exception
\* (a generic Exception, not only the captions-unavailable classes), the
\* Whisper fallback is invoked exactly once with the same id and what it
\* returns is what _fetch_from_youtube returns.
C23_AnyCaptionErrorFallsBack ==
    \A p \in Callers :
        call[p].capOut \in CaptionOutcomes \ {"ok"} =>
            /\ call[p].nFallback = 1
            /\ call[p].whOut = "ok" => call[p].rich.kind = "str"

\* C24: _is_transcript_cached(id) is true exactly when _can_cache holds and
\* a record for id exists; when _can_cache is false, get_transcript neither
\* reads nor writes the cache but still returns the transcript it fetched.
C24_CachedIffUsableAndStored ==
    \A p \in Callers :
        (Active(p) /\ call[p].canCache # "none") =>
            /\ call[p].cached <=>
                  (call[p].canCache = "yes" /\ call[p].stored0 # NoContent)
            /\ (Done(p) /\ call[p].canCache = "no"
                  /\ call[p].writeOut \in {"none", "skipped"}
                  /\ (call[p].capOut = "ok" \/ call[p].whOut = "ok")) =>
                  /\ call[p].result.kind = "ok"
                  /\ call[p].result.source # "database_cache"
                  /\ call[p].result.content = call[p].rich.transcript

\* C25: under repeated batch runs with no further discovery, every queue
\* entry whose acquisition would succeed, by captions or by the audio
\* fallback, is eventually cached and removed from the queue, whatever its
\* transcript_available flag.
C25_EveryEntryEventuallyCached ==
    \A id \in Ids :
        (id \in QueueIds(video_queue)) ~>
            (id \notin QueueIds(video_queue)
                /\ id \in TranscriptIds(transcripts))

\* C26: an existing video_queue entry is never modified: every step leaves
\* each entry in the queue with its flag as it was (re-discovery of its id
\* and a failed acquisition included), or removes it as the batch takes a
\* successful get_transcript result for its id; nothing else happens to an
\* entry.
C26_QueueEntryOnlyRemovedOnSuccess ==
    [][/\ \A i \in 1..Len(video_queue) :
             LET r == video_queue[i]
             IN  \/ /\ \E j \in 1..Len(video_queue') : video_queue'[j] = r
                    /\ \A j \in 1..Len(video_queue') :
                          video_queue'[j].youtube_id = r.youtube_id =>
                              video_queue'[j] = r
                 \/ /\ r.youtube_id \notin QueueIds(video_queue')
                    /\ lp.pc = "wait" /\ lp'.pc # "wait"
                    /\ call[Loop].id = r.youtube_id
                    /\ call[Loop].result.kind = "ok"
       /\ (lp.pc = "wait" /\ lp'.pc # "wait"
             /\ call[Loop].result.kind = "error") =>
             video_queue' = video_queue]_vars

\* a batch run over two entries: one acquisition failed and its entry is
\* still queued with its flag, the other succeeded and its entry is gone
C26_Witness ==
    /\ lp.pc = "respond" /\ Len(lp.items) = 2
    /\ lp.failed = 1 /\ lp.fetched = 1 /\ lp.nresults = 2
    /\ Len(video_queue) = 1
    /\ video_queue[1].transcript_available = 1
    /\ video_queue[1].youtube_id \in {lp.items[1], lp.items[2]}

\* C27: no per-id lock serialises get_transcript: while a call for an id is
\* between its cache check and its cache write and the id has no record, an
\* idle worker can start a call for the same id and miss; an interleaving
\* in which two concurrent calls for the same uncached id both miss and both
\* fetch is reachable.
C27_SecondCallNotSerialised ==
    \A p, q \in Threads :
        (p # q /\ call[p].pc \in {"fetch", "whisper", "cache"}
               /\ CountRows(transcripts, call[p].id) = 0
               /\ call[q].pc = "idle" /\ ncalls < MaxCalls) =>
            ENABLED (Start(q, call[p].id, MaxCalls)
                        /\ call'[q].pc = "fetch"
                        /\ call'[q].canCache = "yes"
                        /\ call'[q].lookupOk)

\* both workers looked up the same id on a usable database, both missed and
\* both called the captions API
C27_Witness ==
    \E id \in Ids :
        \A p \in Threads :
            /\ call[p].id = id /\ call[p].pc = "cache"
            /\ call[p].canCache = "yes" /\ call[p].lookupOk
            /\ ~call[p].cached /\ call[p].stored0 = NoContent
            /\ call[p].nCaption = 1

\* C28: a batch run with parameter amount performs at most amount
\* acquisition calls, one after another with the delay after each, and only
\* for ids that at selection time are in video_queue with
\* transcript_available = 1 and have no transcript record.
C28_BatchBoundedAndSequential ==
    [][/\ (lp.pc = "select" /\ lp'.pc = "call") =>
             /\ Len(lp'.items) <= lp.amount
             /\ \A k \in 1..Len(lp'.items) :
                   /\ \E i \in 1..Len(video_queue) :
                         video_queue[i] = QueueRow(lp'.items[k], 1)
                   /\ lp'.items[k] \notin TranscriptIds(transcripts)
       /\ lp'.pc = "wait" =>
             /\ lp'.idx <= lp'.amount
             /\ lp'.sleeps = lp'.idx - 1
             /\ call'[Loop].id = lp'.items[lp'.idx]
       /\ lp'.pc = "respond" => lp'.sleeps = Len(lp'.items)]_vars

\* what happened inside a get_transcript call
LookupRaised(c) == c.canCache = "yes" /\ ~c.lookupOk
ReadRaised(c) == c.cached /\ c.readErr
FetchRaised(c) == c.capOut = "OtherError"
FallbackRaised(c) == c.whOut \in {"error", "no_api_key"}
WriteRaised(c) == WriteFailed(c)

\* the batch loop takes the result of the call in progress
BatchTakesResult == lp.pc = "wait" /\ lp'.pc # "wait"

RECURSIVE IdsOfPages(_, _)
IdsOfPages(pages, k) ==
    IF k = 0 THEN <<>> ELSE IdsOfPages(pages, k - 1) \o pages[k]

\* the request at which the loop has to stop: the first page that carries
\* no next token, or that brings the ids collected to the limit
StopsAt(pages, max_limit) ==
    CHOOSE k \in 1..Len(pages) :
        /\ k = Len(pages)
              \/ (max_limit > 0 /\ Len(IdsOfPages(pages, k)) >= max_limit)
        /\ \A j \in 1..(k - 1) :
              ~(max_limit > 0 /\ Len(IdsOfPages(pages, j)) >= max_limit)

\* C30: scrape_youtube_ids follows the continuation tokens and stops as soon
\* as a page carries no next token or the limit is reached; it returns the
\* listing's ids in listing order, at most max_limit of them when
\* max_limit > 0 and all of them when max_limit = 0.
C30_ScrapeFollowsTokensUpToLimit ==
    LET listing == IdsOfPages(lp.pages, Len(lp.pages))
        stop == StopsAt(lp.pages, lp.max_limit)
    IN  /\ lp.pc = "scrape" =>
              /\ lp.requests < stop
              /\ lp.video_ids = IdsOfPages(lp.pages, lp.requests)
        /\ lp.pc = "scraped" =>
              /\ lp.requests = stop
              /\ Len(lp.scraped) <= Len(listing)
              /\ lp.scraped = SubSeq(listing, 1, Len(lp.scraped))
              /\ lp.max_limit > 0 =>
                    Len(lp.scraped) = (IF Len(listing) < lp.max_limit
                                       THEN Len(listing) ELSE lp.max_limit)
              /\ lp.max_limit = 0 => lp.scraped = listing
              /\ lp.scraped = ScrapeYoutubeIds(listing, lp.max_limit)

\* the limit was reached in the middle of the second of three pages
C30_Witness ==
    /\ lp.pc = "scraped" /\ Len(lp.pages) = 3 /\ lp.requests = 2
    /\ lp.max_limit = 3 /\ Len(lp.pages[1]) = 2 /\ Len(lp.pages[2]) = 2
    /\ lp.scraped = lp.pages[1] \o <<lp.pages[2][1]>>

====
